---- MODULE Spec2Model ----
(***************************************************************************)
(* A model of the fake_clock crate (src/src/lib.rs): the thread-local      *)
(* millisecond counter FAKE_TIME and the value type FakeInstant that       *)
(* captures it.                                                            *)
(*                                                                         *)
(* Every call of the public interface is one action.  The call, its        *)
(* arguments and what it gave back are recorded in `last`.  A call that    *)
(* panics is recorded with outcome "panic"; the caller may catch the       *)
(* unwind (FakeInstant is UnwindSafe, tests::test_auto_traits) and go on.  *)
(***************************************************************************)
EXTENDS Integers, FiniteSets, TLC

\* ---------------------------------------------------------------- bounds
\* FAKE_TIME and time_created are u64.  The model keeps the unsigned
\* arithmetic and its range checks at a width of Width bits.
Width == 2
\* std::time::Duration has nanosecond resolution: 1_000_000 ns to the
\* millisecond.  The model keeps this many sub-millisecond steps.
NanosPerMilli == 2

\* ----------------------------------------------------------------- types
U64Max == 2^Width - 1
U64 == 0..U64Max
\* u64 arithmetic that wraps is arithmetic modulo 2^Width.
Modulus == U64Max + 1
\* Duration::as_millis gives a u128, twice as wide as the u64 of the count.
U128Max == 2^(2 * Width) - 1

\* The threads of tests::test_threads.
Threads == {"main", "spawned"}
\* The variables of type FakeInstant the callers hold.
Slots == {"inst1", "inst2"}
NoThread == "-"
NoSlot == "-"
\* A FakeInstant variable that has not been assigned, and an unset history.
NoInstant == -1

\* A Duration is a whole number of nanoseconds.  The largest one modelled
\* is two milliseconds longer than u64::MAX milliseconds, as a Duration can
\* hold more milliseconds than a u64.
DurationMax == (U64Max + 3) * NanosPerMilli - 1
Duration == 0..DurationMax
\* Duration::default()
ZeroDuration == 0

\* Duration::from_millis(millis: u64)
from_millis(millis) == millis * NanosPerMilli

\* Duration::as_millis(&self) -> u128: whole milliseconds, the rest dropped
as_millis(duration) == duration \div NanosPerMilli

\* --------------------------------------------------------------- Option
Some(x) == [some |-> TRUE, val |-> x]
None == [some |-> FALSE, val |-> 0]

\* Option::unwrap_or_default for Option<Duration>
unwrap_or_default(opt) == IF opt.some THEN opt.val ELSE ZeroDuration

\* The result of a call that either returns a value or panics.
Returned(x) == [panicked |-> FALSE, val |-> x]
Panicked == [panicked |-> TRUE, val |-> 0]

\* Option::expect
expect(opt) == IF opt.some THEN Returned(opt.val) ELSE Panicked

\* ------------------------------------------------------ integer helpers
\* u64::checked_sub
u64_checked_sub(a, b) == IF b > a THEN None ELSE Some(a - b)

\* u128::checked_add
u128_checked_add(a, b) == IF a + b > U128Max THEN None ELSE Some(a + b)

\* u128 -> u64 by TryInto, .ok()
try_into_u64(x) == IF x > U64Max THEN None ELSE Some(x)

\* (variant: u64::saturating_add in place of `+`)
u64_add_saturating(a, b, checks) ==
    Returned(IF a + b > U64Max THEN U64Max ELSE a + b)

\* `a + b` on u64 with the primitive operator: a panic when the build checks
\* overflow (the default of debug and test builds), two's complement
\* wrap-around when it does not (the default of release builds).
u64_add(a, b, checks) ==
    IF a + b > U64Max
    THEN IF checks THEN Panicked ELSE Returned((a + b) % Modulus)
    ELSE Returned(a + b)

\* `a - b` on u64 with the primitive operator, as above.
u64_sub(a, b, checks) ==
    IF a < b
    THEN IF checks THEN Panicked ELSE Returned((a - b) % Modulus)
    ELSE Returned(a - b)

\* --------------------------------------------- FakeInstant, pure methods
\* A FakeInstant is its field time_created.

\* (variant: the operands of checked_sub exchanged)
checked_duration_since_reversed(self, earlier) ==
    LET diff == u64_checked_sub(earlier, self)
    IN IF diff.some THEN Some(from_millis(diff.val)) ELSE None

\* FakeInstant::checked_duration_since
checked_duration_since(self, earlier) ==
    LET diff == u64_checked_sub(self, earlier)
    IN IF diff.some THEN Some(from_millis(diff.val)) ELSE None

\* FakeInstant::duration_since
duration_since(self, earlier) ==
    unwrap_or_default(checked_duration_since(self, earlier))

\* FakeInstant::saturating_duration_since
saturating_duration_since(self, earlier) ==
    unwrap_or_default(checked_duration_since(self, earlier))

\* (variant: the u128 sum cast with `as u64` in place of try_into)
checked_add_truncating(self, duration) ==
    LET sum == u128_checked_add(as_millis(duration), self)
    IN IF sum.some THEN Some(sum.val % Modulus) ELSE None

\* FakeInstant::checked_add
checked_add(self, duration) ==
    LET sum == u128_checked_add(as_millis(duration), self)
        time == IF sum.some THEN try_into_u64(sum.val) ELSE None
    IN IF time.some THEN Some(time.val) ELSE None

\* (variant: as_millis cast with `as u64` in place of try_into)
checked_sub_truncating(self, duration) ==
    u64_checked_sub(self, as_millis(duration) % Modulus)

\* FakeInstant::checked_sub
checked_sub(self, duration) ==
    LET dur == try_into_u64(as_millis(duration))
        time == IF dur.some THEN u64_checked_sub(self, dur.val) ELSE None
    IN IF time.some THEN Some(time.val) ELSE None

\* (variant: unwrap_or(max) in place of expect)
add_saturating(self, other) ==
    LET sum == checked_add(self, other)
    IN Returned(IF sum.some THEN sum.val ELSE U64Max)

\* impl Add<Duration> for FakeInstant
add(self, other) == expect(checked_add(self, other))

\* impl Sub<Duration> for FakeInstant
sub(self, other) == expect(checked_sub(self, other))

\* impl Sub<Self> for FakeInstant
sub_instant(self, other) == duration_since(self, other)

\* ---------------------------------------------------------------- state
VARIABLES
    FAKE_TIME,        \* thread -> the thread's counter
    inst,             \* slot -> time_created of the FakeInstant held, or NoInstant
    maker,            \* slot -> the thread whose now() made that FakeInstant
    overflow_checks,  \* whether the build checks integer overflow
    last,             \* the latest call and its result
    written,          \* thread -> has called set_time or advance_time
    pinned            \* thread -> argument of its latest set_time if no
                      \*           advance_time came after it, else NoInstant

vars == <<FAKE_TIME, inst, maker, overflow_checks, last, written, pinned>>

NoCall ==
    [op |-> "none", thread |-> NoThread, self |-> NoSlot, earlier |-> NoSlot,
     millis |-> 0, duration |-> ZeroDuration,
     outcome |-> "unit", count |-> 0, dur |-> ZeroDuration]

\* Each thread's FAKE_TIME starts as Cell<u64>::default(); no FakeInstant
\* has been made.
Init ==
    /\ FAKE_TIME = [t \in Threads |-> 0]
    /\ inst = [s \in Slots |-> NoInstant]
    /\ maker = [s \in Slots |-> NoThread]
    /\ overflow_checks \in BOOLEAN
    /\ last = NoCall
    /\ written = [t \in Threads |-> FALSE]
    /\ pinned = [t \in Threads |-> NoInstant]

\* ------------------------------------------------------- the clock calls
\* (variant: c.set(time); c.get() in place of c.replace(time))
set_time_returns_new(t, time) ==
    /\ FAKE_TIME' = [FAKE_TIME EXCEPT ![t] = time]
    /\ last' = [NoCall EXCEPT !.op = "set_time", !.thread = t, !.millis = time,
                              !.outcome = "value", !.count = time]
    /\ written' = [written EXCEPT ![t] = TRUE]
    /\ pinned' = [pinned EXCEPT ![t] = time]
    /\ UNCHANGED <<inst, maker, overflow_checks>>

\* (variant: one counter for the whole process in place of thread_local!)
set_time_shared(t, time) ==
    /\ FAKE_TIME' = [u \in Threads |-> time]
    /\ last' = [NoCall EXCEPT !.op = "set_time", !.thread = t, !.millis = time,
                              !.outcome = "value", !.count = FAKE_TIME[t]]
    /\ written' = [written EXCEPT ![t] = TRUE]
    /\ pinned' = [pinned EXCEPT ![t] = time]
    /\ UNCHANGED <<inst, maker, overflow_checks>>

\* FakeInstant::set_time(time) on thread t: c.replace(time)
set_time(t, time) ==
    /\ FAKE_TIME' = [FAKE_TIME EXCEPT ![t] = time]
    /\ last' = [NoCall EXCEPT !.op = "set_time", !.thread = t, !.millis = time,
                              !.outcome = "value", !.count = FAKE_TIME[t]]
    /\ written' = [written EXCEPT ![t] = TRUE]
    /\ pinned' = [pinned EXCEPT ![t] = time]
    /\ UNCHANGED <<inst, maker, overflow_checks>>

\* FakeInstant::advance_time(millis) on thread t.  When the sum panics,
\* c.set is not reached and the counter keeps its value.
advance_time(t, millis) ==
    LET new_time == u64_add(FAKE_TIME[t], millis, overflow_checks)
    IN /\ FAKE_TIME' = IF new_time.panicked THEN FAKE_TIME
                       ELSE [FAKE_TIME EXCEPT ![t] = new_time.val]
       /\ last' = [NoCall EXCEPT
                     !.op = "advance_time", !.thread = t, !.millis = millis,
                     !.outcome = IF new_time.panicked THEN "panic" ELSE "value",
                     !.count = new_time.val]
       /\ written' = [written EXCEPT ![t] = TRUE]
       /\ pinned' = [pinned EXCEPT ![t] = NoInstant]
       /\ UNCHANGED <<inst, maker, overflow_checks>>

\* FakeInstant::time() on thread t
time(t) ==
    /\ last' = [NoCall EXCEPT !.op = "time", !.thread = t,
                              !.outcome = "value", !.count = FAKE_TIME[t]]
    /\ UNCHANGED <<FAKE_TIME, inst, maker, overflow_checks, written, pinned>>

\* (variant: a clock that ticks at each reading)
now_ticking(t, s) ==
    /\ inst' = [inst EXCEPT ![s] = FAKE_TIME[t]]
    /\ maker' = [maker EXCEPT ![s] = t]
    /\ FAKE_TIME' = [FAKE_TIME EXCEPT ![t] = (FAKE_TIME[t] + 1) % Modulus]
    /\ last' = [NoCall EXCEPT !.op = "now", !.thread = t, !.self = s,
                              !.outcome = "value", !.count = FAKE_TIME[t]]
    /\ UNCHANGED <<overflow_checks, written, pinned>>

\* `s = FakeInstant::now()` on thread t
now(t, s) ==
    /\ inst' = [inst EXCEPT ![s] = FAKE_TIME[t]]
    /\ maker' = [maker EXCEPT ![s] = t]
    /\ last' = [NoCall EXCEPT !.op = "now", !.thread = t, !.self = s,
                              !.outcome = "value", !.count = FAKE_TIME[t]]
    /\ UNCHANGED <<FAKE_TIME, overflow_checks, written, pinned>>

\* (variant: measured against the counter of the thread that made s)
elapsed_on_maker(t, s) ==
    LET diff == u64_sub(FAKE_TIME[maker[s]], inst[s], overflow_checks)
    IN /\ inst[s] # NoInstant
       /\ last' = [NoCall EXCEPT
                     !.op = "elapsed", !.thread = t, !.self = s,
                     !.outcome = IF diff.panicked THEN "panic" ELSE "value",
                     !.dur = IF diff.panicked THEN ZeroDuration
                             ELSE from_millis(diff.val)]
       /\ UNCHANGED <<FAKE_TIME, inst, maker, overflow_checks, written, pinned>>

\* `s.elapsed()` on thread t:
\* Duration::from_millis(Self::time() - self.time_created)
elapsed(t, s) ==
    LET diff == u64_sub(FAKE_TIME[t], inst[s], overflow_checks)
    IN /\ inst[s] # NoInstant
       /\ last' = [NoCall EXCEPT
                     !.op = "elapsed", !.thread = t, !.self = s,
                     !.outcome = IF diff.panicked THEN "panic" ELSE "value",
                     !.dur = IF diff.panicked THEN ZeroDuration
                             ELSE from_millis(diff.val)]
       /\ UNCHANGED <<FAKE_TIME, inst, maker, overflow_checks, written, pinned>>

\* ----------------------------------------- calls of the pure methods
Frame == UNCHANGED <<FAKE_TIME, inst, maker, overflow_checks, written, pinned>>

\* `s.duration_since(e)`
call_duration_since(s, e) ==
    /\ inst[s] # NoInstant /\ inst[e] # NoInstant
    /\ last' = [NoCall EXCEPT !.op = "duration_since", !.self = s, !.earlier = e,
                              !.outcome = "value",
                              !.dur = duration_since(inst[s], inst[e])]
    /\ Frame

\* `s.checked_duration_since(e)`
call_checked_duration_since(s, e) ==
    LET r == checked_duration_since(inst[s], inst[e])
    IN /\ inst[s] # NoInstant /\ inst[e] # NoInstant
       /\ last' = [NoCall EXCEPT
                     !.op = "checked_duration_since", !.self = s, !.earlier = e,
                     !.outcome = IF r.some THEN "value" ELSE "none",
                     !.dur = r.val]
       /\ Frame

\* `s.saturating_duration_since(e)`
call_saturating_duration_since(s, e) ==
    /\ inst[s] # NoInstant /\ inst[e] # NoInstant
    /\ last' = [NoCall EXCEPT
                  !.op = "saturating_duration_since", !.self = s, !.earlier = e,
                  !.outcome = "value",
                  !.dur = saturating_duration_since(inst[s], inst[e])]
    /\ Frame

\* `s - e`
call_sub_instant(s, e) ==
    /\ inst[s] # NoInstant /\ inst[e] # NoInstant
    /\ last' = [NoCall EXCEPT !.op = "sub_instant", !.self = s, !.earlier = e,
                              !.outcome = "value",
                              !.dur = sub_instant(inst[s], inst[e])]
    /\ Frame

\* `s.checked_add(d)`
call_checked_add(s, d) ==
    LET r == checked_add(inst[s], d)
    IN /\ inst[s] # NoInstant
       /\ last' = [NoCall EXCEPT !.op = "checked_add", !.self = s, !.duration = d,
                                 !.outcome = IF r.some THEN "value" ELSE "none",
                                 !.count = r.val]
       /\ Frame

\* `s.checked_sub(d)`
call_checked_sub(s, d) ==
    LET r == checked_sub(inst[s], d)
    IN /\ inst[s] # NoInstant
       /\ last' = [NoCall EXCEPT !.op = "checked_sub", !.self = s, !.duration = d,
                                 !.outcome = IF r.some THEN "value" ELSE "none",
                                 !.count = r.val]
       /\ Frame

\* `s + d`
call_add(s, d) ==
    LET r == add(inst[s], d)
    IN /\ inst[s] # NoInstant
       /\ last' = [NoCall EXCEPT !.op = "add", !.self = s, !.duration = d,
                                 !.outcome = IF r.panicked THEN "panic" ELSE "value",
                                 !.count = r.val]
       /\ Frame

\* `s - d`
call_sub(s, d) ==
    LET r == sub(inst[s], d)
    IN /\ inst[s] # NoInstant
       /\ last' = [NoCall EXCEPT !.op = "sub", !.self = s, !.duration = d,
                                 !.outcome = IF r.panicked THEN "panic" ELSE "value",
                                 !.count = r.val]
       /\ Frame

\* `s += d`: *self = *self + rhs.  A panic comes before the assignment.
add_assign(s, rhs) ==
    LET r == add(inst[s], rhs)
    IN /\ inst[s] # NoInstant
       /\ inst' = IF r.panicked THEN inst ELSE [inst EXCEPT ![s] = r.val]
       /\ last' = [NoCall EXCEPT !.op = "add_assign", !.self = s, !.duration = rhs,
                                 !.outcome = IF r.panicked THEN "panic" ELSE "unit"]
       /\ UNCHANGED <<FAKE_TIME, maker, overflow_checks, written, pinned>>

\* `s -= d`: *self = *self - rhs
sub_assign(s, rhs) ==
    LET r == sub(inst[s], rhs)
    IN /\ inst[s] # NoInstant
       /\ inst' = IF r.panicked THEN inst ELSE [inst EXCEPT ![s] = r.val]
       /\ last' = [NoCall EXCEPT !.op = "sub_assign", !.self = s, !.duration = rhs,
                                 !.outcome = IF r.panicked THEN "panic" ELSE "unit"]
       /\ UNCHANGED <<FAKE_TIME, maker, overflow_checks, written, pinned>>

\* ------------------------------------------------------ specifications
\* The clock: two threads set, advance and read their counters; one
\* FakeInstant variable is captured by either thread and read by both, with
\* the methods that leave it alone.
ClockSlot == "inst1"
\* a sub-millisecond duration, one millisecond, the longest u64 of them
ClockDurations == {1, from_millis(1), from_millis(U64Max)}

Next ==
    \/ \E t \in Threads, v \in U64 : set_time(t, v)
    \/ \E t \in Threads, d \in U64 : advance_time(t, d)
    \/ \E t \in Threads : time(t)
    \/ \E t \in Threads : now(t, ClockSlot)
    \/ \E t \in Threads, s \in Slots : elapsed(t, s)
    \/ \E s \in Slots, e \in Slots : call_duration_since(s, e)
    \/ \E s \in Slots, e \in Slots : call_checked_duration_since(s, e)
    \/ \E s \in Slots, e \in Slots : call_saturating_duration_since(s, e)
    \/ \E s \in Slots, d \in ClockDurations : call_checked_add(s, d)
    \/ \E s \in Slots, d \in ClockDurations : call_checked_sub(s, d)

Spec == Init /\ [][Next]_vars

\* The arithmetic of FakeInstant: two instants of any counts, captured on
\* the main thread by set_time(c); now(), after which both threads called
\* set_time(0).  Every method is applied to the first, with the second as
\* `earlier` and with every duration.
Self == "inst1"
Earlier == "inst2"

InitArith ==
    /\ FAKE_TIME = [t \in Threads |-> 0]
    /\ inst \in [Slots -> U64]
    /\ maker = [s \in Slots |-> "main"]
    /\ overflow_checks \in BOOLEAN
    /\ last = NoCall
    /\ written = [t \in Threads |-> TRUE]
    /\ pinned = [t \in Threads |-> 0]

NextArith ==
    \/ call_duration_since(Self, Earlier)
    \/ call_checked_duration_since(Self, Earlier)
    \/ call_saturating_duration_since(Self, Earlier)
    \/ call_sub_instant(Self, Earlier)
    \/ \E d \in Duration : call_checked_add(Self, d)
    \/ \E d \in Duration : call_checked_sub(Self, d)
    \/ \E d \in Duration : call_add(Self, d)
    \/ \E d \in Duration : call_sub(Self, d)
    \/ \E d \in Duration : add_assign(Self, d)
    \/ \E d \in Duration : sub_assign(Self, d)

SpecArith == InitArith /\ [][NextArith]_vars

\* ---------------------------------------------------------------- claims
\* C1 (as claimed): whenever elapsed() is called on a thread whose counter
\* is below the instant's count, it returns a zero duration and does not
\* abort.
C1_ElapsedFloorsAtZero ==
    (last.op = "elapsed" /\ FAKE_TIME[last.thread] < inst[last.self])
        => (last.outcome = "value" /\ last.dur = ZeroDuration)

\* C2 (as claimed): set_time(v) followed by advance_time(d) on the same
\* thread returns (v + d) mod 2^64 without aborting, overflow included, and
\* an immediately following time() on that thread returns the same value.
C2_AdvanceAlwaysWraps ==
    [][/\ (last'.op = "advance_time" /\ pinned[last'.thread] # NoInstant)
            => /\ last'.outcome = "value"
               /\ last'.count = (pinned[last'.thread] + last'.millis) % Modulus
       /\ (last.op = "advance_time" /\ last'.op = "time"
              /\ last'.thread = last.thread)
            => last'.count = last.count]_vars

\* C2 (amended): set_time(v) followed by advance_time(d) returns v + d when
\* v + d fits in the counter; when it does not, a build without overflow
\* checks returns (v + d) mod 2^64 and a build with overflow checks aborts
\* and leaves the counter at v.  Whenever advance_time returns, the counter
\* holds the returned value and an immediately following time() on that
\* thread returns it.
C2_AdvanceTime ==
    [][/\ (last'.op = "advance_time" /\ pinned[last'.thread] # NoInstant)
            => LET t == last'.thread
                   v == pinned[t]
                   d == last'.millis
               IN IF v + d <= U64Max
                  THEN /\ last'.outcome = "value"
                       /\ last'.count = v + d
                       /\ FAKE_TIME'[t] = v + d
                  ELSE IF overflow_checks
                  THEN /\ last'.outcome = "panic"
                       /\ FAKE_TIME'[t] = v
                  ELSE /\ last'.outcome = "value"
                       /\ last'.count = (v + d) % Modulus
                       /\ FAKE_TIME'[t] = last'.count
       /\ (last.op = "advance_time" /\ last.outcome = "value"
              /\ last'.op = "time" /\ last'.thread = last.thread)
            => last'.count = last.count]_vars

\* C2 witness: advance_time has returned a wrapped sum.
C2_Witness ==
    /\ last.op = "advance_time"
    /\ last.outcome = "value"
    /\ last.count < last.millis
    /\ FAKE_TIME[last.thread] = last.count

\* C3: a thread's counter is zero until that thread's own first set_time or
\* advance_time, time() returns the calling thread's own counter, and a
\* set_time or advance_time of one thread leaves every other thread's
\* counter as it was.
C3_ThreadIsolation ==
    /\ [](\A t \in Threads : ~written[t] => FAKE_TIME[t] = 0)
    /\ [](last.op = "time" => last.count = FAKE_TIME[last.thread])
    /\ [][\A t \in Threads :
            (last'.op \in {"set_time", "advance_time"} /\ last'.thread # t)
                => FAKE_TIME'[t] = FAKE_TIME[t]]_vars

\* C3 witness: one thread has moved its counter, the other has never written
\* its own and has just read it.
C3_Witness ==
    /\ last.op = "time"
    /\ ~written[last.thread]
    /\ \E u \in Threads : written[u] /\ FAKE_TIME[u] > 0

\* C4: elapsed() called on a thread whose counter t is at least the
\* instant's count c returns exactly t - c milliseconds, whichever thread
\* made the instant.
C4_ElapsedExact ==
    (last.op = "elapsed" /\ FAKE_TIME[last.thread] >= inst[last.self])
        => /\ last.outcome = "value"
           /\ last.dur = from_millis(FAKE_TIME[last.thread] - inst[last.self])

\* C4 witness: an instant made on one thread is read on the other, whose
\* counter is ahead of the instant and not equal to the maker's counter.
C4_Witness ==
    /\ last.op = "elapsed"
    /\ maker[last.self] # last.thread
    /\ FAKE_TIME[last.thread] > inst[last.self]
    /\ FAKE_TIME[maker[last.self]] # FAKE_TIME[last.thread]
    /\ as_millis(last.dur) = FAKE_TIME[last.thread] - inst[last.self]

C6_CheckedAddSub ==
    LET c == inst[last.self]
        m == last.duration \div NanosPerMilli
    IN /\ last.op = "checked_add"
            => /\ (last.outcome = "none") <=> (c + m > U64Max)
               /\ c + m <= U64Max => (last.outcome = "value"
                                        /\ last.count = c + m)
       /\ last.op = "checked_sub"
            => /\ (last.outcome = "none") <=> (m > c)
               /\ m <= c => (last.outcome = "value" /\ last.count = c - m)

\* C6 witness: checked_sub of more milliseconds than a u64 holds, from the
\* largest count, is absent.
C6_Witness ==
    /\ last.op = "checked_sub"
    /\ inst[last.self] = U64Max
    /\ last.duration \div NanosPerMilli > U64Max
    /\ last.outcome = "none"

\* C7 (as claimed): checked_add of any positive duration to an instant at
\* the largest count is absent, and checked_sub of any duration longer than
\* 1 ms from an instant at count 1 is absent.
C7_AnyPositiveDuration ==
    /\ (last.op = "checked_add" /\ inst[last.self] = U64Max
           /\ last.duration > ZeroDuration)
         => last.outcome = "none"
    /\ (last.op = "checked_sub" /\ inst[last.self] = 1
           /\ last.duration > from_millis(1))
         => last.outcome = "none"

\* C7 (amended): checked_add to an instant at the largest count is absent
\* exactly when the duration is at least 1 ms, and returns the same count
\* for a shorter one; checked_sub from an instant at count 1 is absent
\* exactly when the duration is at least 2 ms, and returns count 0 for a
\* duration of at least 1 ms and less than 2 ms.
C7_WholeMillis ==
    /\ (last.op = "checked_add" /\ inst[last.self] = U64Max)
         => IF last.duration >= from_millis(1)
            THEN last.outcome = "none"
            ELSE last.outcome = "value" /\ last.count = U64Max
    /\ (last.op = "checked_sub" /\ inst[last.self] = 1)
         => IF last.duration >= from_millis(2)
            THEN last.outcome = "none"
            ELSE /\ last.outcome = "value"
                 /\ last.count = IF last.duration >= from_millis(1)
                                 THEN 0 ELSE 1

\* C7 witness: a positive duration below 1 ms was added to an instant at
\* the largest count.
C7_Witness ==
    /\ last.op = "checked_add"
    /\ inst[last.self] = U64Max
    /\ last.duration > ZeroDuration
    /\ last.duration < from_millis(1)
    /\ last.outcome = "value"

\* C8: i + d, i += d, i - d and i -= d abort exactly when checked_add(d) /
\* checked_sub(d) of the same instant is absent, leaving the instant as it
\* was, and otherwise produce exactly the instant the checked form returns.
C8_Operators ==
    [][LET i == inst[last'.self]
           d == last'.duration
           r == IF last'.op \in {"add", "add_assign"}
                THEN checked_add(i, d) ELSE checked_sub(i, d)
       IN /\ last'.op \in {"add", "sub"}
               => /\ (last'.outcome = "panic") <=> ~r.some
                  /\ r.some => (last'.outcome = "value" /\ last'.count = r.val)
                  /\ inst' = inst
          /\ last'.op \in {"add_assign", "sub_assign"}
               => /\ (last'.outcome = "panic") <=> ~r.some
                  /\ r.some => (last'.outcome = "unit"
                                  /\ inst' = [inst EXCEPT ![last'.self] = r.val])
                  /\ ~r.some => inst' = inst]_vars

\* C8 witness: 1 ms was added with `+` to an instant at the largest count,
\* and the call aborted.
C8_Witness ==
    /\ last.op = "add"
    /\ inst[last.self] = U64Max
    /\ last.duration = from_millis(1)
    /\ last.outcome = "panic"

\* C9: set_time(v) on a thread whose counter is p returns p, for v < p too;
\* from then until that thread's next set_time or advance_time its counter
\* is v, every time() on it returns v and every now() on it yields an
\* instant of count v.
C9_SetTime ==
    /\ [][last'.op = "set_time"
            => /\ last'.outcome = "value"
               /\ last'.count = FAKE_TIME[last'.thread]
               /\ FAKE_TIME'[last'.thread] = last'.millis
               /\ pinned'[last'.thread] = last'.millis]_vars
    /\ [](\A t \in Threads : pinned[t] # NoInstant => FAKE_TIME[t] = pinned[t])
    /\ []((last.op = "time" /\ pinned[last.thread] # NoInstant)
            => (last.outcome = "value" /\ last.count = pinned[last.thread]))
    /\ []((last.op = "now" /\ pinned[last.thread] # NoInstant)
            => /\ last.outcome = "value"
               /\ last.count = pinned[last.thread]
               /\ inst[last.self] = pinned[last.thread])

\* C9 witness: set_time lowered a counter and returned the higher prior
\* value.
C9_Witness ==
    /\ last.op = "set_time"
    /\ last.millis < last.count
    /\ FAKE_TIME[last.thread] = last.millis

\* C10: a FakeInstant keeps its count through set_time and advance_time on
\* any thread and through elapsed, duration_since, checked_duration_since,
\* saturating_duration_since, checked_add and checked_sub (now() into the
\* same variable makes a new FakeInstant); and time(), now() and those
\* methods leave every thread's counter as it was.
InstantMethods ==
    {"elapsed", "duration_since", "checked_duration_since",
     "saturating_duration_since", "checked_add", "checked_sub"}

C10_Frame ==
    [][/\ last'.op \in {"set_time", "advance_time", "time"} \cup InstantMethods
            => inst' = inst
       /\ last'.op = "now"
            => \A s \in Slots : s # last'.self => inst'[s] = inst[s]
       /\ last'.op \in {"time", "now"} \cup InstantMethods
            => FAKE_TIME' = FAKE_TIME]_vars

\* C10 witness: checked_add returned a new instant of another count while
\* the instant it was called on kept its own, after the counter of the
\* thread that made it had moved on.
C10_Witness ==
    /\ last.op = "checked_add"
    /\ last.outcome = "value"
    /\ last.count # inst[last.self]
    /\ FAKE_TIME[maker[last.self]] # inst[last.self]

====
